---- MODULE Spec2Model ----
(***************************************************************************)
(* Model of tox's PEP 751 lock-file support:                               *)
(*   src/tox/tox_env/python/pip/pylock.py    PylockFile, PylockDeps        *)
(*   src/tox/tox_env/python/pip/req_file.py  _is_pylock_file and the two   *)
(*                                           _get_file_content overrides   *)
(*                                                                         *)
(* Representation.                                                         *)
(*  - A Python str on which the code does character work (startswith,      *)
(*    endswith, lower) is a sequence of one-character strings.             *)
(*  - An optional value (dict.get -> None, an argument left at None) is a  *)
(*    sequence of length 0 (None) or 1 (the value).                        *)
(*  - A str that the code only tests for truth and concatenates (package   *)
(*    name, version) is a TLA+ string; "" stands for both the absent key   *)
(*    and the empty string, which `if not name` / `if version` treat alike.*)
(*  - A version is a sequence of naturals (the release segment); a         *)
(*    specifier set is a sequence of clauses [op, v].                      *)
(*  - A marker is a sequence of tokens <<lhs, op, rhs>>; <<>> stands for   *)
(*    the absent key and the empty string (`if not marker_str`).           *)
(***************************************************************************)
EXTENDS Naturals, Sequences, FiniteSets

VARIABLES
    fs,        \* the file at the lock path: [exists, wellformed, doc]
    py,        \* sys.version_info[:3] of the running interpreter
    platform,  \* sys_platform of the default marker environment
    data,      \* PylockFile._data: None or the decoded document
    last,      \* outcome of the latest accessor call on the reader
    prev,      \* summary of the accessor call before the latest one
    ref,       \* the reference handed to the latest _get_file_content call
    content,   \* outcome of the latest _get_file_content call
    decl,      \* PythonDeps._raw: the lines of the dependency declaration
    args,      \* outcome of the latest PythonDeps.as_root_args
    cache,     \* PylockDeps._requirements: None or the cached list
    got,       \* outcome of the latest PylockDeps access
    tree,      \* what the file system holds at the path of the directory utility
    job,       \* the ensure_empty_dir call in progress, if any
    done,      \* outcome of the latest ensure_empty_dir / ensure_cachedir_tag call
    asked      \* extras and dependency_groups of the latest get_requirements call

vars == <<fs, py, platform, data, last, prev, ref, content,
          decl, args, cache, got, tree, job, done, asked>>

\* the variables of PythonDeps.as_root_args, PylockDeps and the directory utility
others == <<decl, args, cache, got, tree, job, done, asked>>

None == <<>>
Some(x) == <<x>>

(***************************************************************************)
(* Strings as character sequences.                                         *)
(***************************************************************************)
StartsWith(s, p) == Len(s) >= Len(p) /\ SubSeq(s, 1, Len(p)) = p

EndsWith(s, p) == Len(s) >= Len(p) /\ SubSeq(s, Len(s) - Len(p) + 1, Len(s)) = p

(***************************************************************************)
(* packaging.version / packaging.specifiers, as far as the code uses them. *)
(* ".".join(str(v) for v in t) followed by Version(...) maps a tuple of    *)
(* ints to the release segment with the same numbers, so the rendered      *)
(* version string is kept as that tuple. Releases of different length      *)
(* compare with zero padding (3.12 == 3.12.0).                             *)
(***************************************************************************)
Seg(v, i) == IF i <= Len(v) THEN v[i] ELSE 0

Width(a, b) == IF Len(a) >= Len(b) THEN Len(a) ELSE Len(b)

VersionEq(a, b) == \A i \in 1..Width(a, b) : Seg(a, i) = Seg(b, i)

VersionLess(a, b) ==
    \E i \in 1..Width(a, b) :
        /\ Seg(a, i) < Seg(b, i)
        /\ \A j \in 1..(i - 1) : Seg(a, j) = Seg(b, j)

ClauseContains(c, v) ==
    CASE c.op = "==" -> VersionEq(v, c.v)
      [] c.op = "!=" -> ~VersionEq(v, c.v)
      [] c.op = ">=" -> ~VersionLess(v, c.v)
      [] c.op = "<"  -> VersionLess(v, c.v)
      [] c.op = "<=" -> VersionLess(v, c.v) \/ VersionEq(v, c.v)
      [] c.op = ">"  -> VersionLess(c.v, v)

\* SpecifierSet(s).contains(version_str): every clause admits the version.
SpecifierContains(spec, v) == \A i \in 1..Len(spec) : ClauseContains(spec[i], v)

\* current_python[:3]
Take3(t) == SubSeq(t, 1, IF Len(t) < 3 THEN Len(t) ELSE 3)

(***************************************************************************)
(* packaging.markers, as far as the code uses it. Marker(marker_str)       *)
(* raises InvalidMarker unless the left side names a marker variable and   *)
(* the operator is a marker operator; Marker.evaluate() compares the       *)
(* variable's value in the default environment, and raises                 *)
(* UndefinedComparison for an operator that has no meaning on plain        *)
(* strings ("~=").                                                         *)
(***************************************************************************)
MarkerVars == {"sys_platform", "os_name"}

MarkerOps == {"==", "!=", "~="}

default_environment(plat) ==
    [n \in MarkerVars |->
        IF n = "sys_platform" THEN plat
        ELSE IF plat = "win32" THEN "nt" ELSE "posix"]

\* Marker(marker_str).evaluate(): "true", "false", or the exception raised.
EvalMarker(m, plat) ==
    IF ~(Len(m) = 3 /\ m[1] \in MarkerVars /\ m[2] \in MarkerOps)
    THEN "InvalidMarker"
    ELSE CASE m[2] = "==" -> IF default_environment(plat)[m[1]] = m[3] THEN "true" ELSE "false"
           [] m[2] = "!=" -> IF default_environment(plat)[m[1]] # m[3] THEN "true" ELSE "false"
           [] m[2] = "~=" -> "UndefinedComparison"

MarkerErrors == {"InvalidMarker", "UndefinedComparison"}

(***************************************************************************)
(* PylockFile (pylock.py). A decoded document is a record                  *)
(*   [lock_version : optional character string,                            *)
(*    requires_python : specifier set (<<>>: absent or empty),             *)
(*    created_by : optional string, default_groups : set of strings,       *)
(*    packages : sequence of [name, version, marker, requires_python]].    *)
(* Every method is an operator from the reader's _data (d), the file (f)   *)
(* and the arguments to its outcome: the new _data, the exception raised   *)
(* ("" for a normal return) and the value returned.                        *)
(***************************************************************************)

\* {}: the document without any key
EmptyDoc ==
    [lock_version |-> None, requires_python |-> <<>>, created_by |-> None,
     default_groups |-> {}, packages |-> <<>>]

\* PylockFile.__init__: self._data = None
NewReader == None

\* A faulty _ensure_loaded: self._data is set to an empty dict before the
\* path is looked at.
_ensure_loaded_caches_early(d, f) ==
    IF d # None THEN [data |-> d, exc |-> "", msg |-> ""]
    ELSE IF ~f.exists
        THEN [data |-> Some(EmptyDoc), exc |-> "FileNotFoundError",
              msg |-> "Lock file not found"]
    ELSE IF ~f.wellformed
        THEN [data |-> d, exc |-> "TOMLDecodeError", msg |-> "decode"]
    ELSE IF f.doc.lock_version = None
        THEN [data |-> Some(f.doc), exc |-> "ValueError", msg |-> "missing lock-version"]
    ELSE IF ~StartsWith(f.doc.lock_version[1], <<"1", ".">>)
        THEN [data |-> Some(f.doc), exc |-> "ValueError", msg |-> "unsupported version"]
    ELSE [data |-> Some(f.doc), exc |-> "", msg |-> ""]

\* PylockFile._ensure_loaded
\* The decoded document is stored in _data before lock-version is validated.
_ensure_loaded(d, f) ==
    IF d # None THEN [data |-> d, exc |-> "", msg |-> ""]
    ELSE IF ~f.exists
        THEN [data |-> d, exc |-> "FileNotFoundError", msg |-> "Lock file not found"]
    ELSE IF ~f.wellformed
        THEN [data |-> d, exc |-> "TOMLDecodeError", msg |-> "decode"]
    ELSE IF f.doc.lock_version = None
        THEN [data |-> Some(f.doc), exc |-> "ValueError", msg |-> "missing lock-version"]
    ELSE IF ~StartsWith(f.doc.lock_version[1], <<"1", ".">>)
        THEN [data |-> Some(f.doc), exc |-> "ValueError", msg |-> "unsupported version"]
    ELSE [data |-> Some(f.doc), exc |-> "", msg |-> ""]

\* A faulty _check_compatibility: the specifier is evaluated and the result
\* dropped, nothing is raised.
_check_compatibility_silent(d, f, current_python) == _ensure_loaded(d, f)

\* PylockFile._check_compatibility
_check_compatibility(d, f, current_python) ==
    LET r == _ensure_loaded(d, f) IN
    IF r.exc # "" THEN r
    ELSE IF /\ r.data[1].requires_python # <<>>
            /\ ~SpecifierContains(r.data[1].requires_python, Take3(current_python))
        THEN [data |-> r.data, exc |-> "ValueError", msg |-> "requires Python"]
    ELSE r

\* A faulty _should_install_package: "<name> in extras" is answered from
\* the extras asked for.
_should_install_package_by_extras(pkg, extras, dependency_groups, plat) ==
    IF pkg.marker = <<>> THEN [exc |-> "", value |-> TRUE]
    ELSE IF Len(pkg.marker) = 3 /\ pkg.marker[2] = "in" /\ pkg.marker[3] = "extras"
    THEN [exc |-> "", value |-> (pkg.marker[1] \in extras)]
    ELSE LET o == EvalMarker(pkg.marker, plat) IN
         [exc |-> "", value |-> (o # "false")]

\* A faulty _should_install_package: a marker that cannot be evaluated
\* excludes the package.
_should_install_package_strict(pkg, extras, dependency_groups, plat) ==
    IF pkg.marker = <<>> THEN [exc |-> "", value |-> TRUE]
    ELSE [exc |-> "", value |-> (EvalMarker(pkg.marker, plat) = "true")]

\* PylockFile._should_install_package: [exc, value]; every exception of the
\* marker library is caught and answered True.
_should_install_package(pkg, extras, dependency_groups, plat) ==
    IF pkg.marker = <<>> THEN [exc |-> "", value |-> TRUE]
    ELSE LET o == EvalMarker(pkg.marker, plat) IN
         IF o \in MarkerErrors THEN [exc |-> "", value |-> TRUE]
         ELSE [exc |-> "", value |-> (o = "true")]

\* A faulty _build_requirement_string: the pin is written without looking
\* whether there is a version.
_build_requirement_string_always_pinned(pkg) ==
    IF pkg.name = "" THEN <<>> ELSE <<pkg.name, "==", pkg.version>>

\* PylockFile._build_requirement_string: the requirement string as its
\* pieces, <<name, "==", version>> or <<name>>; <<>> is None.
_build_requirement_string(pkg) ==
    IF pkg.name = "" THEN <<>>
    ELSE IF pkg.version # "" THEN <<pkg.name, "==", pkg.version>>
    ELSE <<pkg.name>>

\* packaging's Requirement(req_str): the name and the specifier parsed out.
Requirement(req_str) ==
    [name |-> req_str[1],
     specifier |-> IF Len(req_str) = 3 THEN <<req_str[2], req_str[3]>> ELSE <<>>]

\* str(req): the name followed by the specifier, one string.
ReqStr(req) == <<req.name>> \o req.specifier

\* A faulty loop body: the package's own requires-python is not looked at.
PackageStep_ignores_requires_python(pkg, extras, dependency_groups, python_version, plat) ==
    LET inst == _should_install_package(pkg, extras, dependency_groups, plat)
        req_str == _build_requirement_string(pkg)
    IN
    IF inst.exc # "" THEN [exc |-> inst.exc, add |-> <<>>]
    ELSE IF ~inst.value \/ req_str = <<>> THEN [exc |-> "", add |-> <<>>]
    ELSE [exc |-> "", add |-> <<Requirement(req_str)>>]

\* The loop body of PylockFile.get_requirements for one package:
\* [exc, add] where add is the list of requirements the package contributes.
PackageStep(pkg, extras, dependency_groups, python_version, plat) ==
    LET inst == _should_install_package(pkg, extras, dependency_groups, plat) IN
    IF inst.exc # "" THEN [exc |-> inst.exc, add |-> <<>>]
    ELSE IF ~inst.value THEN [exc |-> "", add |-> <<>>]
    ELSE IF /\ pkg.requires_python # <<>>
            /\ ~SpecifierContains(pkg.requires_python, python_version)
        THEN [exc |-> "", add |-> <<>>]
    ELSE LET req_str == _build_requirement_string(pkg) IN
         IF req_str # <<>> THEN [exc |-> "", add |-> <<Requirement(req_str)>>]
         ELSE [exc |-> "", add |-> <<>>]

\* The for loop of PylockFile.get_requirements over packages[i..]:
\* [exc, reqs]; an exception ends the loop.
RECURSIVE PackagesLoop(_, _, _, _, _, _)
PackagesLoop(packages, i, extras, dependency_groups, python_version, plat) ==
    IF i > Len(packages) THEN [exc |-> "", reqs |-> <<>>]
    ELSE LET s == PackageStep(packages[i], extras, dependency_groups, python_version, plat) IN
         IF s.exc # "" THEN [exc |-> s.exc, reqs |-> <<>>]
         ELSE LET rest == PackagesLoop(packages, i + 1, extras, dependency_groups,
                                       python_version, plat) IN
              IF rest.exc # "" THEN rest
              ELSE [exc |-> "", reqs |-> s.add \o rest.reqs]

\* PylockFile.get_requirements(extras=, dependency_groups=, python_version=):
\* [data, exc, msg, reqs]. The three arguments are optional values.
get_requirements(d, f, extras, dependency_groups, python_version, sysver, plat) ==
    LET r == _ensure_loaded(d, f)
        pv == IF python_version = None THEN sysver ELSE python_version[1]
    IN
    IF r.exc # "" THEN [data |-> r.data, exc |-> r.exc, msg |-> r.msg, reqs |-> <<>>]
    ELSE LET c == _check_compatibility(r.data, f, pv) IN
    IF c.exc # "" THEN [data |-> c.data, exc |-> c.exc, msg |-> c.msg, reqs |-> <<>>]
    ELSE LET doc == c.data[1]
             ex == IF extras = None THEN {} ELSE extras[1]
             dg == IF dependency_groups = None THEN doc.default_groups
                   ELSE dependency_groups[1]
             l == PackagesLoop(doc.packages, 1, ex, dg, pv, plat)
         IN [data |-> c.data, exc |-> l.exc,
             msg |-> IF l.exc = "" THEN "" ELSE "marker", reqs |-> l.reqs]

\* PylockFile.lock_version: [data, exc, msg, ver]
lock_version(d, f) ==
    LET r == _ensure_loaded(d, f) IN
    IF r.exc # "" THEN [data |-> r.data, exc |-> r.exc, msg |-> r.msg, ver |-> <<>>]
    ELSE IF r.data[1].lock_version = None
        THEN [data |-> r.data, exc |-> "KeyError", msg |-> "lock-version", ver |-> <<>>]
    ELSE [data |-> r.data, exc |-> "", msg |-> "", ver |-> r.data[1].lock_version[1]]

\* PylockFile.created_by: [data, exc, msg, str]
created_by(d, f) ==
    LET r == _ensure_loaded(d, f) IN
    IF r.exc # "" THEN [data |-> r.data, exc |-> r.exc, msg |-> r.msg, str |-> ""]
    ELSE [data |-> r.data, exc |-> "", msg |-> "",
          str |-> IF r.data[1].created_by = None THEN "unknown"
                  ELSE r.data[1].created_by[1]]

(***************************************************************************)
(* The inputs: files, documents, interpreter versions.                     *)
(***************************************************************************)
\* the lock path does not exist
Missing == [exists |-> FALSE, wellformed |-> FALSE, doc |-> EmptyDoc]

\* the lock path holds bytes that are not a TOML document
Garbled == [exists |-> TRUE, wellformed |-> FALSE, doc |-> EmptyDoc]

\* the lock path holds the TOML text of doc
FileOf(doc) == [exists |-> TRUE, wellformed |-> TRUE, doc |-> doc]

Pkg(n, v, m, rp) == [name |-> n, version |-> v, marker |-> m, requires_python |-> rp]

Ge(v) == <<[op |-> ">=", v |-> v]>>
Eq(v) == <<[op |-> "==", v |-> v]>>
Lt(v) == <<[op |-> "<", v |-> v]>>

\* lock-version values: "1.0", "1.7", "2.0", "1", "11.0", "0.1."
LockVersions ==
    { <<"1", ".", "0">>, <<"1", ".", "7">>, <<"2", ".", "0">>, <<"1">>,
      <<"1", "1", ".", "0">>, <<"0", ".", "1", ".">> }

SysVersions == { <<3, 9, 0>>, <<3, 12, 0>> }

Platforms == {"linux", "win32"}

\* python_version arguments: left out, or a tuple of ints
PvArgs == {None} \cup { Some(v) : v \in {<<3, 9, 0>>, <<3, 12, 0>>, <<3, 12, 0, 1>>} }

ExtrasArgs == {None, Some({}), Some({"dev"})}

GroupsArgs == {None, Some({"docs"})}

\* documents of the load specification: every lock-version shape around one
\* package, and some with created-by or requires-python as well
LoadDoc(lv, rp, cb) ==
    [lock_version |-> lv, requires_python |-> rp, created_by |-> cb,
     default_groups |-> {}, packages |-> <<Pkg("pytest", "7.4.0", <<>>, <<>>)>>]

LoadDocs ==
    { LoadDoc(lv, <<>>, None) : lv \in {None} \cup { Some(v) : v \in LockVersions } }
    \cup { LoadDoc(None, <<>>, Some("test")),
           LoadDoc(None, Ge(<<3, 10>>), None),
           LoadDoc(Some(<<"2", ".", "0">>), Ge(<<3, 10>>), Some("test")),
           LoadDoc(Some(<<"1", ".", "0">>), Ge(<<3, 10>>), Some("test")) }

LoadFiles == {Missing, Garbled} \cup { FileOf(doc) : doc \in LoadDocs }

(***************************************************************************)
(* The idle values of the components a specification does not exercise.    *)
(***************************************************************************)
\* get_requirements called without extras and dependency_groups
NoAsked == [extras |-> None, groups |-> None]

NoArgs == [kind |-> "none", exc |-> "", list |-> <<>>, saw |-> Missing]

NoGot ==
    [op |-> "none", kind |-> "none", exc |-> "", reqs |-> <<>>, strs |-> <<>>,
     opts |-> <<>>, options |-> {}, read |-> FALSE, first |-> None]

ChildNames == {"CACHEDIR.TAG", "a", "sub"}

\* no such child
Gone == [kind |-> "absent", text |-> <<>>, locked |-> FALSE]

NoTree == [kind |-> "absent", parent |-> TRUE, kids |-> [n \in ChildNames |-> Gone]]

NoJob == [pc |-> "idle", except |-> None, listing |-> {}, at |-> "", isdir |-> FALSE]

NoDone == [op |-> "none", kind |-> "none", exc |-> "", before |-> NoTree, except |-> None]

RestIdle ==
    /\ decl = <<>>
    /\ args = NoArgs
    /\ cache = None
    /\ got = NoGot
    /\ tree = NoTree
    /\ job = NoJob
    /\ done = NoDone
    /\ asked = NoAsked

(***************************************************************************)
(* The reader's calls as actions. last records the outcome of the call;    *)
(* its probed/found fields record whether the call had to look at the path *)
(* (no document cached) and whether the path existed then.                 *)
(***************************************************************************)
NoCall ==
    [op |-> "none", pv |-> <<>>, kind |-> "none", exc |-> "", msg |-> "",
     ver |-> <<>>, str |-> "", reqs |-> <<>>, probed |-> FALSE, found |-> FALSE]

NoPrev == [op |-> "none", kind |-> "none", exc |-> ""]

Summary(c) == [op |-> c.op, kind |-> c.kind, exc |-> c.exc]

Outcome(op, pv, r, ver, str, reqs) ==
    [op |-> op, pv |-> pv,
     kind |-> IF r.exc = "" THEN "return" ELSE "raise",
     exc |-> r.exc, msg |-> r.msg,
     ver |-> ver, str |-> str, reqs |-> reqs,
     probed |-> (data = None), found |-> (data = None /\ fs.exists)]

\* _ = pylock.lock_version
LockVersion ==
    LET r == lock_version(data, fs) IN
    /\ data' = r.data
    /\ last' = Outcome("lock_version", <<>>, r, r.ver, "", <<>>)
    /\ prev' = Summary(last)
    /\ UNCHANGED <<fs, py, platform, ref, content>>
    /\ UNCHANGED others

\* _ = pylock.created_by
CreatedBy ==
    LET r == created_by(data, fs) IN
    /\ data' = r.data
    /\ last' = Outcome("created_by", <<>>, r, <<>>, r.str, <<>>)
    /\ prev' = Summary(last)
    /\ UNCHANGED <<fs, py, platform, ref, content>>
    /\ UNCHANGED others

\* pylock.get_requirements(extras=e, dependency_groups=g, python_version=pv)
GetRequirements(e, g, pv) ==
    LET r == get_requirements(data, fs, e, g, pv, py, platform) IN
    /\ data' = r.data
    /\ last' = Outcome("get_requirements",
                       IF pv = None THEN py ELSE pv[1], r, <<>>, "", r.reqs)
    /\ prev' = Summary(last)
    /\ UNCHANGED <<fs, py, platform, ref, content>>
    /\ UNCHANGED others

\* another program writes the lock path
WriteFile(f) ==
    /\ f.exists
    /\ fs' = f
    /\ UNCHANGED <<py, platform, data, last, prev, ref, content>>
    /\ UNCHANGED others

\* another program removes the lock path
RemoveFile ==
    /\ fs.exists
    /\ fs' = Missing
    /\ UNCHANGED <<py, platform, data, last, prev, ref, content>>
    /\ UNCHANGED others

NoRef == [scheme |-> "", name |-> <<>>]

NoContent ==
    [cls |-> "", kind |-> "none", origin |-> "", exc |-> "",
     text |-> <<>>, raw |-> Missing, saw |-> Missing]

(***************************************************************************)
(* SpecLoad: one reader on a lock path whose file comes and goes.          *)
(***************************************************************************)
InitLoad ==
    /\ fs \in LoadFiles
    /\ py \in SysVersions
    /\ platform \in Platforms
    /\ data = NewReader
    /\ last = NoCall
    /\ prev = NoPrev
    /\ ref = NoRef
    /\ content = NoContent
    /\ RestIdle

NextLoad ==
    \/ LockVersion
    \/ CreatedBy
    \/ \E e \in ExtrasArgs, g \in GroupsArgs, pv \in PvArgs : GetRequirements(e, g, pv)
    \/ \E f \in LoadFiles : WriteFile(f)
    \/ RemoveFile

SpecLoad == InitLoad /\ [][NextLoad]_vars

(***************************************************************************)
(* SpecReq: one reader on a well-versioned lock file, queried repeatedly.  *)
(* The documents are all package lists of at most MaxPkgs entries drawn    *)
(* from PkgPool, under each document-level requires-python, and the        *)
(* three-package document of test_full_example_from_pep_751.               *)
(***************************************************************************)
MaxPkgs == 2

WinOnly == <<"sys_platform", "==", "win32">>

\* 'dev' in extras: the PEP 751 extension syntax
InExtras == <<"dev", "in", "extras">>

\* sys_platform ~= 'linux': parses, cannot be evaluated
Tilde == <<"sys_platform", "~=", "linux">>

PkgPool ==
    { Pkg("attrs", "25.1.0", <<>>, Ge(<<3, 8>>)),
      Pkg("numpy", "2.2.3", <<>>, Ge(<<3, 10>>)),
      Pkg("old-package", "1.0.0", <<>>, Ge(<<2, 7>>) \o Lt(<<3, 0>>)),
      Pkg("vcs-pkg", "", <<>>, <<>>),
      Pkg("", "1.0", <<>>, <<>>),
      Pkg("colorama", "0.4.6", WinOnly, <<>>),
      Pkg("typer", "0.9.0", InExtras, <<>>),
      Pkg("tomli", "2.0.1", Tilde, Ge(<<3, 10>>)) }

PkgLists == UNION { [1..k -> PkgPool] : k \in 0..MaxPkgs }

DocRequires == { <<>>, Ge(<<3, 8>>), Eq(<<3, 12>>) }

ReqDoc(rp, ps) ==
    [lock_version |-> Some(<<"1", ".", "0">>), requires_python |-> rp,
     created_by |-> Some("test"), default_groups |-> {}, packages |-> ps]

Pep751Doc ==
    [lock_version |-> Some(<<"1", ".", "0">>), requires_python |-> Eq(<<3, 12>>),
     created_by |-> Some("mousebender"), default_groups |-> {},
     packages |-> << Pkg("attrs", "25.1.0", <<>>, Ge(<<3, 8>>)),
                     Pkg("cattrs", "24.1.2", <<>>, Ge(<<3, 8>>)),
                     Pkg("numpy", "2.2.3", <<>>, Ge(<<3, 10>>)) >>]

ReqDocs == { ReqDoc(rp, ps) : rp \in DocRequires, ps \in PkgLists } \cup {Pep751Doc}

InitReq ==
    /\ fs \in { FileOf(doc) : doc \in ReqDocs }
    /\ py \in SysVersions
    /\ platform \in Platforms
    /\ data = NewReader
    /\ last = NoCall
    /\ prev = NoPrev
    /\ ref = NoRef
    /\ content = NoContent
    /\ RestIdle

NextReq ==
    \E e \in ExtrasArgs, g \in GroupsArgs, pv \in PvArgs : GetRequirements(e, g, pv)

SpecReq == InitReq /\ [][NextReq]_vars

(***************************************************************************)
(* Properties of the reader.                                               *)
(***************************************************************************)
Accessors == {"lock_version", "created_by", "get_requirements"}

Called == last.op \in Accessors

\* the document the reader has read (it reads at most one)
Doc == data[1]

FailedMalformed == last.kind = "raise" /\ last.exc = "ValueError"

\* C1: on a document without lock-version every access of lock_version,
\* created_by and get_requirements fails with the malformed-lock ValueError,
\* the first access and every later one.
C1_MissingVersionAlwaysFails ==
    (Called /\ data # None /\ Doc.lock_version = None)
        => (FailedMalformed /\ last.msg = "missing lock-version")

UnsupportedVersion ==
    data # None /\ Doc.lock_version # None /\ ~StartsWith(Doc.lock_version[1], <<"1", ".">>)

SupportedVersion ==
    data # None /\ Doc.lock_version # None /\ StartsWith(Doc.lock_version[1], <<"1", ".">>)

\* C2: with a lock-version that does not start with "1." every accessor
\* fails with malformed-lock, on every call: get_requirements never returns
\* a list and lock_version never returns a value; with a lock-version that
\* starts with "1." the load succeeds.
C2_VersionGate ==
    /\ (Called /\ UnsupportedVersion) => FailedMalformed
    /\ (Called /\ SupportedVersion /\ last.op # "get_requirements") => last.kind = "return"

\* C3: while the lock path is missing every accessor fails with
\* FileNotFoundError and caches nothing; the reader stays unloaded, so the
\* next access looks at the path again, and once a file is there it is
\* decoded and cached.
C3_NotFoundLeavesUnloaded ==
    /\ (Called /\ last.probed /\ ~last.found)
            => (last.kind = "raise" /\ last.exc = "FileNotFoundError")
    /\ last.exc = "FileNotFoundError" => (data = None /\ last.probed /\ ~last.found)
    /\ (Called /\ last.probed /\ last.found)
            => (data # None \/ last.exc = "TOMLDecodeError")
    /\ (Called /\ SupportedVersion /\ last.op = "lock_version")
            => (last.kind = "return" /\ last.ver = Doc.lock_version[1])

\* a failed access on the missing path, then the file appears and loads
C3_Witness ==
    /\ prev.exc = "FileNotFoundError"
    /\ last.op = "get_requirements" /\ last.kind = "return" /\ Len(last.reqs) = 1
    /\ last.probed /\ last.found

DocLevelOk(doc, pv) ==
    doc.requires_python = <<>> \/ SpecifierContains(doc.requires_python, Take3(pv))

Admits(p, pv) == p.requires_python = <<>> \/ SpecifierContains(p.requires_python, pv)

NamesOf(s) == [i \in 1..Len(s) |-> s[i].name]

Render(p) == IF p.version # "" THEN <<p.name, "==", p.version>> ELSE <<p.name>>

Rendered(ps) == [i \in 1..Len(ps) |-> Render(ps[i])]

Strings(reqs) == [i \in 1..Len(reqs) |-> ReqStr(reqs[i])]

\* C5: every call on the ==3.12 three-package document returns the packages
\* whose own requires-python admits the queried version: 3 at (3, 12, 0),
\* then 2 at (3, 9, 0), without raising.
C5_Pep751Example ==
    (last.op = "get_requirements" /\ data = Some(Pep751Doc))
        => /\ last.kind = "return"
           /\ NamesOf(last.reqs) =
                 NamesOf(SelectSeq(Pep751Doc.packages, LAMBDA p : Admits(p, last.pv)))
           /\ last.pv = <<3, 12, 0>> => Len(last.reqs) = 3
           /\ last.pv = <<3, 9, 0>> => Len(last.reqs) = 2

MarkerAdmits(p) ==
    p.marker = <<>> \/ EvalMarker(p.marker, platform) # "false"

\* C6: when the document-level check passes, the call returns, and the
\* entries whose own requires-python excludes the queried version are
\* missing from the result while the other includable entries are there in
\* document order.
C6_PackageLevelFilter ==
    (last.op = "get_requirements" /\ data # None /\ DocLevelOk(Doc, last.pv))
        => /\ last.kind = "return"
           /\ NamesOf(last.reqs) =
                 NamesOf(SelectSeq(Doc.packages,
                     LAMBDA p : p.name # "" /\ MarkerAdmits(p) /\ Admits(p, last.pv)))

\* an entry was dropped for its requires-python and another one kept
C6_Witness ==
    /\ last.op = "get_requirements" /\ last.kind = "return" /\ data # None
    /\ Len(Doc.packages) = 2 /\ Len(last.reqs) = 1
    /\ ~Admits(Doc.packages[1], last.pv)
    /\ last.reqs[1].name = Doc.packages[2].name

NoMarkers(doc) == \A i \in 1..Len(doc.packages) : doc.packages[i].marker = <<>>

DefaultCall == last.op = "get_requirements" /\ last.kind = "return" /\ last.pv = py

\* C7 as stated: on a document whose entries carry no markers the default
\* call returns, in document order and without deduplication, name==version
\* for an entry with a version, the bare name for one without, and nothing
\* for an entry without a name.
C7_Original ==
    (DefaultCall /\ data # None /\ NoMarkers(Doc))
        => Strings(last.reqs) =
              Rendered(SelectSeq(Doc.packages, LAMBDA p : p.name # ""))

\* C7 amended: the same, for the entries whose own requires-python (if any)
\* admits the interpreter version; N entries with name and version that the
\* version filter keeps give N strings name==version.
C7_RequirementStrings ==
    (DefaultCall /\ data # None /\ NoMarkers(Doc))
        => /\ Strings(last.reqs) =
                 Rendered(SelectSeq(Doc.packages,
                     LAMBDA p : p.name # "" /\ Admits(p, py)))
           /\ (\A i \in 1..Len(Doc.packages) :
                    /\ Doc.packages[i].name # ""
                    /\ Doc.packages[i].version # ""
                    /\ Admits(Doc.packages[i], py))
                => /\ Len(last.reqs) = Len(Doc.packages)
                   /\ \A i \in 1..Len(last.reqs) :
                        ReqStr(last.reqs[i]) =
                            <<Doc.packages[i].name, "==", Doc.packages[i].version>>

\* the same entry twice and both kept; a bare name next to a pinned one
C7_Witness ==
    /\ DefaultCall /\ data # None /\ NoMarkers(Doc)
    /\ Len(Doc.packages) = 2 /\ Len(last.reqs) = 2
    /\ \/ Doc.packages[1] = Doc.packages[2] /\ Len(ReqStr(last.reqs[1])) = 3
       \/ Len(ReqStr(last.reqs[1])) = 3 /\ Len(ReqStr(last.reqs[2])) = 1

\* the marker policy, case by case
MarkerPolicy(p) ==
    CASE p.marker = <<>> -> TRUE
      [] p.marker # <<>> /\ EvalMarker(p.marker, platform) = "false" -> FALSE
      [] p.marker # <<>> /\ EvalMarker(p.marker, platform) = "true" -> TRUE
      [] p.marker # <<>> /\ EvalMarker(p.marker, platform) \in MarkerErrors -> TRUE

\* C8: get_requirements never ends with an exception of the marker library,
\* and among the entries that are otherwise kept it returns those without a
\* marker, those whose marker is true and those whose marker cannot be
\* parsed or evaluated, and drops those whose marker is false.
C8_MarkerPolicy ==
    last.op = "get_requirements"
        => /\ last.exc \notin MarkerErrors
           /\ last.kind = "return"
                => Strings(last.reqs) =
                      Rendered(SelectSeq(Doc.packages,
                          LAMBDA p : p.name # "" /\ Admits(p, last.pv) /\ MarkerPolicy(p)))

\* a false marker dropped and an extension-syntax marker kept, in one call
C8_Witness ==
    /\ last.op = "get_requirements" /\ last.kind = "return" /\ data # None
    /\ Len(Doc.packages) = 2
    /\ Doc.packages[1].marker = WinOnly /\ platform = "linux"
    /\ Doc.packages[2].marker \in {InExtras, Tilde}
    /\ NamesOf(last.reqs) = <<Doc.packages[2].name>>

(***************************************************************************)
(* req_file.py: lock files referenced from a requirements declaration.     *)
(* A reference (the url handed to _get_file_content) is kept as its scheme *)
(* prefix ("" for a plain path) and its final path component, the two      *)
(* parts of the string the code looks at.                                  *)
(***************************************************************************)
LowerChar(c) ==
    CASE c = "P" -> "p" [] c = "Y" -> "y" [] c = "L" -> "l" [] c = "O" -> "o"
      [] c = "C" -> "c" [] c = "K" -> "k" [] c = "T" -> "t" [] c = "M" -> "m"
      [] c = "D" -> "d" [] c = "E" -> "e" [] c = "V" -> "v"
      [] OTHER -> c

\* str.lower()
Lower(s) == [i \in 1..Len(s) |-> LowerChar(s[i])]

\* A faulty _is_pylock_file: the name is compared as written, not lowered.
_is_pylock_file_case_sensitive(path_str) ==
    \/ path_str = <<"p", "y", "l", "o", "c", "k", ".", "t", "o", "m", "l">>
    \/ /\ StartsWith(path_str, <<"p", "y", "l", "o", "c", "k", ".">>)
       /\ EndsWith(path_str, <<".", "t", "o", "m", "l">>)

\* _is_pylock_file
_is_pylock_file(path_str) ==
    LET path_lower == Lower(path_str) IN
    \/ path_lower = <<"p", "y", "l", "o", "c", "k", ".", "t", "o", "m", "l">>
    \/ /\ StartsWith(path_lower, <<"p", "y", "l", "o", "c", "k", ".">>)
       /\ EndsWith(path_lower, <<".", "t", "o", "m", "l">>)

\* url.startswith(("http://", "https://", "file://"))
HasUrlScheme(url) == url.scheme \in {"http://", "https://", "file://"}

\* PythonDeps._is_url_self: the declaration itself, <root>/tox.ini
ToxIni == [scheme |-> "", name |-> <<"t", "o", "x", ".", "i", "n", "i">>]

_is_url_self(url) == url = ToxIni

\* "\n".join(lines)
RECURSIVE JoinLines(_)
JoinLines(lines) ==
    IF Len(lines) = 0 THEN <<>>
    ELSE IF Len(lines) = 1 THEN lines[1]
    ELSE lines[1] \o <<"\n">> \o JoinLines(Tail(lines))

\* [str(req) for req in lock_requirements]
StrEach(reqs) == [i \in 1..Len(reqs) |-> ReqStr(reqs[i])]

Text(origin, text) ==
    [kind |-> "text", origin |-> origin, exc |-> "", text |-> text, raw |-> Missing]

\* RequirementsFile._get_file_content of the base class: the text of the
\* file behind the reference, or an error when it cannot be opened.
StandardGetFileContent(url, f) ==
    IF f.exists
    THEN [kind |-> "text", origin |-> "standard", exc |-> "", text |-> <<>>, raw |-> f]
    ELSE [kind |-> "raise", origin |-> "standard", exc |-> "CouldNotOpen",
          text |-> <<>>, raw |-> Missing]

\* A faulty try block: `except ValueError`, so a missing lock file escapes.
ExpandLock_except_ValueError(f, sysver, plat) ==
    LET r == get_requirements(NewReader, f, None, None, None, sysver, plat) IN
    IF r.exc \in {"ValueError", "TOMLDecodeError"}
    THEN [kind |-> "pass", origin |-> "lock", exc |-> "", text |-> <<>>, raw |-> Missing]
    ELSE IF r.exc # ""
    THEN [kind |-> "raise", origin |-> "lock", exc |-> r.exc, text |-> <<>>, raw |-> Missing]
    ELSE Text("lock", JoinLines(StrEach(r.reqs)))

\* The try block shared by both overrides: PylockFile(url_path),
\* get_requirements() with all defaults, the join; `except Exception` turns
\* every failure into the fall-through (kind "pass").
ExpandLock(f, sysver, plat) ==
    LET r == get_requirements(NewReader, f, None, None, None, sysver, plat) IN
    IF r.exc # ""
    THEN [kind |-> "pass", origin |-> "lock", exc |-> "", text |-> <<>>, raw |-> Missing]
    ELSE Text("lock", JoinLines(StrEach(r.reqs)))

\* PythonDeps._get_file_content, given what its try block makes of the file
PythonDeps_file_content(url, f, expanded) ==
    LET tried == IF ~HasUrlScheme(url) /\ _is_pylock_file(url.name)
                 THEN expanded
                 ELSE [kind |-> "pass", origin |-> "lock", exc |-> "",
                       text |-> <<>>, raw |-> Missing]
    IN
    IF tried.kind # "pass" THEN tried
    ELSE IF _is_url_self(url)
        THEN [kind |-> "text", origin |-> "self", exc |-> "", text |-> <<>>, raw |-> Missing]
    ELSE StandardGetFileContent(url, f)

\* PythonDeps._get_file_content
PythonDeps_get_file_content(url, f, sysver, plat) ==
    PythonDeps_file_content(url, f, ExpandLock(f, sysver, plat))

\* _PylockAwareRequirementsFile._get_file_content
PylockAware_get_file_content(url, f, sysver, plat) ==
    LET tried == IF ~HasUrlScheme(url) /\ _is_pylock_file(url.name)
                 THEN ExpandLock(f, sysver, plat)
                 ELSE [kind |-> "pass", origin |-> "lock", exc |-> "",
                       text |-> <<>>, raw |-> Missing]
    IN
    IF tried.kind # "pass" THEN tried
    ELSE StandardGetFileContent(url, f)

\* file names of the include specification
PylockToml == <<"p", "y", "l", "o", "c", "k", ".", "t", "o", "m", "l">>
PylockUpper == <<"P", "y", "L", "o", "c", "k", ".", "T", "O", "M", "L">>
PylockDev == <<"p", "y", "l", "o", "c", "k", ".", "d", "e", "v", ".", "t", "o", "m", "l">>
PylockDevUpper == <<"P", "Y", "L", "O", "C", "K", ".", "d", "e", "v", ".", "T", "o", "m", "l">>
PylockTxt == <<"p", "y", "l", "o", "c", "k", ".", "t", "x", "t">>
MyPylock == <<"m", "y", "p", "y", "l", "o", "c", "k", ".", "t", "o", "m", "l">>
PylockBak == <<"p", "y", "l", "o", "c", "k", ".", "t", "o", "m", "l", ".", "b", "a", "k">>
PylockNoDot == <<"p", "y", "l", "o", "c", "k", "t", "o", "m", "l">>
ReqsTxt == <<"r", "e", "q", "s", ".", "t", "x", "t">>

FileNames ==
    { PylockToml, PylockUpper, PylockDev, PylockDevUpper, PylockTxt, MyPylock,
      PylockBak, PylockNoDot, ReqsTxt, ToxIni.name }

Urls == { [scheme |-> s, name |-> n] : s \in {"", "file://", "https://"}, n \in FileNames }

\* what the referenced path holds
IncDocs ==
    { Pep751Doc,
      ReqDoc(<<>>, <<>>),
      ReqDoc(Ge(<<3, 8>>), <<Pkg("pytest", "7.4.0", <<>>, <<>>)>>),
      ReqDoc(<<>>, << Pkg("colorama", "0.4.6", WinOnly, <<>>),
                      Pkg("typer", "0.9.0", InExtras, <<>>),
                      Pkg("vcs-pkg", "", <<>>, <<>>) >>),
      LoadDoc(None, <<>>, Some("test")),
      LoadDoc(Some(<<"2", ".", "0">>), <<>>, None) }

IncFiles == {Missing, Garbled} \cup { FileOf(doc) : doc \in IncDocs }

Got(cls, url, out) ==
    [cls |-> cls, kind |-> out.kind, origin |-> out.origin, exc |-> out.exc,
     text |-> out.text, raw |-> out.raw, saw |-> fs]

\* PythonDeps(...)._get_file_content(url) while parsing the declaration
DepsGetFileContent(url) ==
    /\ ref' = url
    /\ content' = Got("PythonDeps", url, PythonDeps_get_file_content(url, fs, py, platform))
    /\ UNCHANGED <<fs, py, platform, data, last, prev>>
    /\ UNCHANGED others

\* _PylockAwareRequirementsFile(...)._get_file_content(url)
AwareGetFileContent(url) ==
    /\ ref' = url
    /\ content' = Got("_PylockAwareRequirementsFile", url,
                      PylockAware_get_file_content(url, fs, py, platform))
    /\ UNCHANGED <<fs, py, platform, data, last, prev>>
    /\ UNCHANGED others

InitInc ==
    /\ fs \in IncFiles
    /\ py \in SysVersions
    /\ platform \in Platforms
    /\ data = NewReader
    /\ last = NoCall
    /\ prev = NoPrev
    /\ ref = NoRef
    /\ content = NoContent
    /\ RestIdle

NextInc ==
    \/ \E url \in Urls : DepsGetFileContent(url)
    \/ \E url \in Urls : AwareGetFileContent(url)
    \/ \E f \in IncFiles : WriteFile(f)
    \/ RemoveFile

SpecInc == InitInc /\ [][NextInc]_vars

(***************************************************************************)
(* Properties of the include handling.                                     *)
(***************************************************************************)
\* the names of FileNames that are, case-insensitively, pylock.toml or
\* pylock.<name>.toml
LockNames == {PylockToml, PylockUpper, PylockDev, PylockDevUpper}

Asked == content.kind # "none"

\* PylockFile(path).get_requirements() on the file the call saw
DefaultRequirements == get_requirements(NewReader, content.saw, None, None, None, py, platform)

Delivered ==
    [kind |-> content.kind, origin |-> content.origin, exc |-> content.exc,
     text |-> content.text, raw |-> content.raw]

\* C9 as stated: a reference to a local file with a lock-file name whose
\* lock file parses is answered with the newline-joined default requirement
\* strings of the lock file, not with its raw text.
C9_Original ==
    (Asked /\ ref.scheme \in {"", "file://"} /\ ref.name \in LockNames
           /\ DefaultRequirements.exc = "")
        => Delivered = Text("lock", JoinLines(StrEach(DefaultRequirements.reqs)))

\* C9 amended: the same for a reference given as a plain path, without an
\* http://, https:// or file:// prefix.
C9_LockReferenceExpanded ==
    (Asked /\ ref.scheme = "" /\ ref.name \in LockNames /\ DefaultRequirements.exc = "")
        => Delivered = Text("lock", JoinLines(StrEach(DefaultRequirements.reqs)))

\* PYLOCK.dev.Toml expanded into two lines
C9_Witness ==
    /\ Asked /\ ref = [scheme |-> "", name |-> PylockDevUpper]
    /\ content.origin = "lock"
    /\ content.text = <<"typer", "==", "0.9.0", "\n", "vcs-pkg">>

\* C10: when reading the referenced lock file fails (missing file, missing
\* or unsupported lock-version, requires-python unsatisfied, undecodable
\* document), _get_file_content raises nothing of the lock reader's and
\* delivers what the standard handling delivers for the same reference.
C10_FallbackToStandard ==
    (Asked /\ ref.name \in LockNames /\ DefaultRequirements.exc # "")
        => /\ Delivered = StandardGetFileContent(ref, content.saw)
           /\ content.origin = "standard"

\* the ==3.12 document on a 3.9 interpreter: passed through as raw text
C10_Witness ==
    /\ Asked /\ ref = [scheme |-> "", name |-> PylockToml]
    /\ content.saw = FileOf(Pep751Doc) /\ py = <<3, 9, 0>>
    /\ content.kind = "text" /\ content.raw = FileOf(Pep751Doc)

(***************************************************************************)
(* PythonDeps.as_root_args (req_file.py). The declaration is kept as its   *)
(* lines after _normalize_raw: a requirement, "-r <file>", "-c <file>" or  *)
(* "--no-deps". An argument of the result is a record: a flag, a           *)
(* requirement string (its pieces) or a file reference. Every path with a  *)
(* lock-file name holds the file fs; reqs.txt is a requirements file with  *)
(* one line. The line parser and the option handling of the base class     *)
(* RequirementsFile are not part of these sources.                         *)
(***************************************************************************)
NoUrl == [scheme |-> "", name |-> <<>>]

ReqLine(r) == [kind |-> "req", req |-> r, url |-> NoUrl]
IncludeLine(flag, scheme, name) ==
    [kind |-> flag, req |-> <<>>, url |-> [scheme |-> scheme, name |-> name]]
NoDepsLine == [kind |-> "--no-deps", req |-> <<>>, url |-> NoUrl]

Flag(f) == [t |-> "flag", flag |-> f, req |-> <<>>, url |-> NoUrl]
ReqArg(r) == [t |-> "req", flag |-> "", req |-> r, url |-> NoUrl]
PathArg(u) == [t |-> "path", flag |-> "", req |-> <<>>, url |-> u]

NoOpt == [requirements |-> <<>>, constraints |-> <<>>, no_deps |-> FALSE]

InSeq(x, s) == \E i \in 1..Len(s) : s[i] = x

AppendNew(s, x) == IF InSeq(x, s) THEN s ELSE Append(s, x)

\* the lines of reqs.txt
ReqsTxtLines == << <<"requests">> >>

\* splitting the text of a lock expansion at "\n"
RECURSIVE SplitLines(_, _, _)
SplitLines(text, found, cur) ==
    IF Len(text) = 0 THEN (IF cur = <<>> THEN found ELSE Append(found, cur))
    ELSE SplitLines(Tail(text),
                    IF Head(text) = "\n" THEN Append(found, cur) ELSE found,
                    IF Head(text) = "\n" THEN <<>> ELSE Append(cur, Head(text)))

\* RequirementsFile._parse_file on a nested file: what _get_file_content
\* delivers, read as requirement lines: [exc, lines]. The text of a lock
\* file or of an undecodable file is no requirements file. Every reference
\* of one call meets the same file, so its expansion is handed in.
NestedLines(url, f, expanded) ==
    LET c == PythonDeps_file_content(url, f, expanded) IN
    IF c.kind = "raise" THEN [exc |-> c.exc, lines |-> <<>>]
    ELSE IF c.origin = "lock" THEN [exc |-> "", lines |-> SplitLines(c.text, <<>>, <<>>)]
    ELSE IF url = [scheme |-> "", name |-> ReqsTxt] THEN [exc |-> "", lines |-> ReqsTxtLines]
    ELSE [exc |-> "ValueError", lines |-> <<>>]

\* RequirementsFile._merge_option_line of the base class: requirements and
\* constraints percolate upward, each once.
Base_merge_option_line(base_opt, line) ==
    CASE line.kind = "-r" ->
            [base_opt EXCEPT !.requirements = AppendNew(@, line.url)]
      [] line.kind = "-c" ->
            [base_opt EXCEPT !.constraints = AppendNew(@, line.url)]
      [] OTHER -> base_opt

\* PythonDeps._merge_option_line
_merge_option_line(base_opt, line) ==
    LET o == Base_merge_option_line(base_opt, line) IN
    IF line.kind = "--no-deps" THEN [o EXCEPT !.no_deps = TRUE] ELSE o

RECURSIVE AppendAllNew(_, _)
AppendAllNew(s, xs) ==
    IF xs = <<>> THEN s ELSE AppendAllNew(AppendNew(s, Head(xs)), Tail(xs))

\* one line of the declaration in _parse_requirements(opt, recurse=True):
\* a requirement already found is not added again, an option line is merged
\* into opt and the file it names is parsed in its place.
ParseLine(line, sofar, f, expanded) ==
    IF line.kind = "req"
    THEN [sofar EXCEPT !.reqs = AppendNew(@, line.req)]
    ELSE IF line.kind = "--no-deps"
    THEN [sofar EXCEPT !.opt = _merge_option_line(@, line)]
    ELSE LET n == NestedLines(line.url, f, expanded) IN
         IF n.exc # "" THEN [exc |-> n.exc, reqs |-> <<>>, opt |-> sofar.opt]
         ELSE [exc |-> "", reqs |-> AppendAllNew(sofar.reqs, n.lines),
               opt |-> _merge_option_line(sofar.opt, line)]

\* PythonDeps._parse_requirements(opt, recurse=True) over lines[i..]:
\* [exc, reqs, opt]
RECURSIVE ParseFrom(_, _, _, _, _)
ParseFrom(lines, i, sofar, f, expanded) ==
    IF i > Len(lines) \/ sofar.exc # "" THEN sofar
    ELSE ParseFrom(lines, i + 1, ParseLine(lines[i], sofar, f, expanded), f, expanded)

\* RequirementsFile._option_to_args of the base class: the -r and -c pairs;
\* it knows no --no-deps.
RECURSIVE Pairs(_, _)
Pairs(flag, urls) ==
    IF urls = <<>> THEN <<>>
    ELSE <<Flag(flag), PathArg(Head(urls))>> \o Pairs(flag, Tail(urls))

Base_option_to_args(opt) == Pairs("-r", opt.requirements) \o Pairs("-c", opt.constraints)

\* PythonDeps._option_to_args
_option_to_args(opt) ==
    Base_option_to_args(opt) \o (IF opt.no_deps THEN <<Flag("--no-deps")>> ELSE <<>>)

\* the while loop of _option_to_args_filtered over parent_args[i..]
RECURSIVE SkipPairs(_, _)
SkipPairs(parent_args, i) ==
    IF i > Len(parent_args) THEN <<>>
    ELSE LET skip == /\ parent_args[i].t = "flag"
                     /\ parent_args[i].flag \in {"-r", "-c"}
                     /\ i + 1 <= Len(parent_args)
         IN (IF skip THEN <<>> ELSE <<parent_args[i]>>)
            \o SkipPairs(parent_args, IF skip THEN i + 2 ELSE i + 1)

\* A faulty first loop: lock-file references are passed on like any other.
RECURSIVE RequirementPairs_unfiltered(_)
RequirementPairs_unfiltered(urls) ==
    IF urls = <<>> THEN <<>>
    ELSE <<Flag("-r"), PathArg(Head(urls))>> \o RequirementPairs_unfiltered(Tail(urls))

\* the first loop of _option_to_args_filtered
RECURSIVE RequirementPairs(_)
RequirementPairs(urls) ==
    IF urls = <<>> THEN <<>>
    ELSE (IF ~_is_pylock_file(Head(urls).name)
          THEN <<Flag("-r"), PathArg(Head(urls))>> ELSE <<>>)
         \o RequirementPairs(Tail(urls))

\* PythonDeps._option_to_args_filtered; self._req_parser is a
\* _PylockAwareRequirementsFile, whose _option_to_args is the base class's.
_option_to_args_filtered(opt) ==
    RequirementPairs(opt.requirements)
    \o Pairs("-c", opt.constraints)
    \o SkipPairs(Base_option_to_args(opt), 1)

\* req.as_args() for each parsed requirement
AsArgs(reqs) == [i \in 1..Len(reqs) |-> ReqArg(reqs[i])]

\* PythonDeps.as_root_args: [kind, exc, list, saw]
as_root_args(lines, f, sysver, plat) ==
    LET p == ParseFrom(lines, 1, [exc |-> "", reqs |-> <<>>, opt |-> NoOpt],
                       f, ExpandLock(f, sysver, plat))
    IN
    IF p.exc # "" THEN [kind |-> "raise", exc |-> p.exc, list |-> <<>>, saw |-> f]
    ELSE [kind |-> "return", exc |-> "",
          list |-> AsArgs(p.reqs) \o _option_to_args_filtered(p.opt), saw |-> f]

MaxLines == 2

LinePool ==
    { ReqLine(<<"pytest", "==", "7.4.0">>),
      ReqLine(<<"requests">>),
      IncludeLine("-r", "", PylockToml),
      IncludeLine("-r", "", PylockDevUpper),
      IncludeLine("-r", "file://", PylockToml),
      IncludeLine("-r", "", ReqsTxt),
      IncludeLine("-c", "", PylockToml),
      IncludeLine("-c", "", ReqsTxt),
      NoDepsLine }

Declarations == UNION { [1..k -> LinePool] : k \in 1..MaxLines }

\* deps.as_root_args
AsRootArgs ==
    /\ args' = as_root_args(decl, fs, py, platform)
    /\ UNCHANGED <<fs, py, platform, data, last, prev, ref, content>>
    /\ UNCHANGED <<decl, cache, got, tree, job, done, asked>>

InitArgs ==
    /\ fs \in IncFiles
    /\ py \in SysVersions
    /\ platform \in Platforms
    /\ data = NewReader
    /\ last = NoCall
    /\ prev = NoPrev
    /\ ref = NoRef
    /\ content = NoContent
    /\ decl \in Declarations
    /\ args = NoArgs
    /\ cache = None
    /\ got = NoGot
    /\ tree = NoTree
    /\ job = NoJob
    /\ done = NoDone
    /\ asked = NoAsked

NextArgs ==
    \/ AsRootArgs
    \/ \E f \in IncFiles : WriteFile(f)
    \/ RemoveFile

SpecArgs == InitArgs /\ [][NextArgs]_vars

(***************************************************************************)
(* Claims about the flattened argument list                                *)
(***************************************************************************)
Flattened == args.kind = "return"

NamesLock(a) == a.t = "path" /\ a.url.name \in LockNames

\* the declaration has a line `flag <lock file>` with a plain path
LockLine(flag) ==
    \E k \in 1..Len(decl) :
        /\ decl[k].kind = flag
        /\ decl[k].url.scheme = ""
        /\ decl[k].url.name \in LockNames

\* PylockFile(path).get_requirements() on the file the call saw
PinnedArgs ==
    LET r == get_requirements(NewReader, args.saw, None, None, None, py, platform) IN
    { ReqArg(ReqStr(r.reqs[j])) : j \in 1..Len(r.reqs) }

NoIncludeOfLock ==
    \A i \in 1..Len(args.list) :
        (i < Len(args.list) /\ args.list[i] = Flag("-r")) => ~NamesLock(args.list[i + 1])

C17_NoDepsSurvives ==
    (Flattened /\ \E k \in 1..Len(decl) : decl[k].kind = "--no-deps")
        => InSeq(Flag("--no-deps"), args.list)

(***************************************************************************)
(* PylockDeps (pylock.py): self._pylock is the reader `data` on the path   *)
(* `fs`, self._requirements is `cache`. `got` is the outcome of the last   *)
(* access; got.read tells whether the access called the reader, got.first  *)
(* remembers the list of the first access of the requirements that         *)
(* returned.                                                               *)
(***************************************************************************)
\* A faulty property: the list is computed anew at every access.
requirements_uncached(c, d, f, sysver, plat) ==
    LET r == get_requirements(d, f, None, None, None, sysver, plat) IN
    [cache |-> IF r.exc = "" THEN Some(r.reqs) ELSE c, data |-> r.data,
     exc |-> r.exc, reqs |-> r.reqs, read |-> TRUE]

\* PylockDeps.requirements: [cache, data, exc, reqs, read]
requirements(c, d, f, sysver, plat) ==
    IF c = None
    THEN LET r == get_requirements(d, f, None, None, None, sysver, plat) IN
         [cache |-> IF r.exc = "" THEN Some(r.reqs) ELSE c, data |-> r.data,
          exc |-> r.exc, reqs |-> r.reqs, read |-> TRUE]
    ELSE [cache |-> c, data |-> d, exc |-> "", reqs |-> c[1], read |-> FALSE]

\* Namespace(): no attribute
Namespace == {}

Remember(r) == IF got.first = None /\ r.exc = "" THEN Some(r.reqs) ELSE got.first

\* deps.requirements, deps.as_root_args or deps.unroll()
AccessRequirements(op) ==
    LET r == requirements(cache, data, fs, py, platform) IN
    /\ cache' = r.cache
    /\ data' = r.data
    /\ got' = [op |-> op,
               kind |-> IF r.exc = "" THEN "return" ELSE "raise",
               exc |-> r.exc,
               reqs |-> IF op = "requirements" THEN r.reqs ELSE <<>>,
               strs |-> IF op = "requirements" THEN <<>> ELSE StrEach(r.reqs),
               opts |-> <<>>,
               options |-> {},
               read |-> r.read,
               first |-> Remember(r)]
    /\ UNCHANGED <<fs, py, platform, last, prev, ref, content>>
    /\ UNCHANGED <<decl, args, tree, job, done, asked>>

\* deps.options
AccessOptions ==
    /\ got' = [op |-> "options", kind |-> "return", exc |-> "", reqs |-> <<>>,
               strs |-> <<>>, opts |-> <<>>, options |-> Namespace,
               read |-> FALSE, first |-> got.first]
    /\ UNCHANGED <<fs, py, platform, data, last, prev, ref, content>>
    /\ UNCHANGED <<decl, args, cache, tree, job, done, asked>>

InitDeps ==
    /\ fs \in IncFiles
    /\ py \in SysVersions
    /\ platform \in Platforms
    /\ data = NewReader
    /\ last = NoCall
    /\ prev = NoPrev
    /\ ref = NoRef
    /\ content = NoContent
    /\ RestIdle

NextDeps ==
    \/ \E op \in {"requirements", "as_root_args", "unroll"} : AccessRequirements(op)
    \/ AccessOptions
    \/ \E f \in IncFiles : WriteFile(f)
    \/ RemoveFile

SpecDeps == InitDeps /\ [][NextDeps]_vars

\* what one access hands back, whatever accessor it was
Listed == IF got.op = "requirements" THEN StrEach(got.reqs) ELSE got.strs

\* C12: once an access of the requirements has returned, every later access
\* of requirements, as_root_args and unroll() returns that same list (its
\* string forms, in order, for as_root_args and unroll()[1]) without calling
\* the reader again; unroll()[0] is always the empty list and options is
\* always an empty Namespace.
C12_OneCachedSelection ==
    /\ [](got.op = "options" => got.options = {})
    /\ [](got.opts = <<>>)
    /\ [][(got.first # None /\ got' # got) =>
             /\ got'.first = got.first
             /\ ~got'.read
             /\ got'.kind = "return"
             /\ got'.op # "options" =>
                   /\ Listed' = StrEach(got.first[1])
                   /\ got'.op = "requirements" => got'.reqs = got.first[1]]_vars

C12_Witness ==
    /\ got.op = "unroll" /\ got.kind = "return" /\ ~got.read
    /\ got.strs = << <<"pytest", "==", "7.4.0">> >>
    /\ fs = FileOf(ReqDoc(<<>>, <<>>))
    /\ cache # None

(***************************************************************************)
(* tox/util/path.py. `tree` is the path and what is under it: its kind, if *)
(* its parent directory exists, and its children by name. A child is       *)
(* absent, a plain file with its text (a sequence of lines) or a           *)
(* subdirectory; `locked` marks a subdirectory whose removal fails.        *)
(* ensure_empty_dir runs in steps (`job`): the listing, then for every     *)
(* listed name the tests of line 22 and 24 and the removal, in the order   *)
(* iterdir happens to give. `done` is the call that ran last.              *)
(***************************************************************************)
_CACHEDIR_TAG_HEADER == "Signature: 8a477f597d28d172789f06886806bc55"

_CACHEDIR_TAG_CONTENT ==
    << _CACHEDIR_TAG_HEADER,
       "# This file is a cache directory tag created by tox.",
       "# For information about cache directory tags, see:",
       "#\thttps://bford.info/cachedir/spec.html" >>

PlainFile(text) == [kind |-> "file", text |-> text, locked |-> FALSE]

SubDir(locked) == [kind |-> "dir", text |-> <<>>, locked |-> locked]

NoKids == [n \in ChildNames |-> Gone]

EmptyDir == [kind |-> "dir", parent |-> TRUE, kids |-> NoKids]

\* A faulty test: no name is spared.
IsException_never(name, except_filename) == FALSE

\* sub_path.name == except_filename
IsException(name, except_filename) == except_filename = Some(name)

\* rmtree(sub_path, ignore_errors=True): what cannot be removed, or is no
\* longer there, is passed over in silence
rmtree(t, name) ==
    IF t.kids[name].kind = "dir" /\ ~t.kids[name].locked
    THEN [t EXCEPT !.kids[name] = Gone]
    ELSE t

\* sub_path.unlink(): [exc, tree]
unlink(t, name) ==
    IF t.kids[name].kind = "absent" THEN [exc |-> "FileNotFoundError", tree |-> t]
    ELSE IF t.kids[name].kind = "dir" THEN [exc |-> "IsADirectoryError", tree |-> t]
    ELSE [exc |-> "", tree |-> [t EXCEPT !.kids[name] = Gone]]

\* A faulty else branch: the file is removed and no directory made.
ReplaceFile_unlink_only(t) == [kind |-> "absent", parent |-> TRUE, kids |-> NoKids]

\* path.unlink(); path.mkdir()
ReplaceFile(t) == EmptyDir

\* path.mkdir(parents=True)
MakeDirs(t) == EmptyDir

\* path.iterdir(): the names found
Listing(t) == { n \in ChildNames : t.kids[n].kind # "absent" }

\* A faulty ensure_cachedir_tag: the tag is written at every call.
ensure_cachedir_tag_overwrites(t) ==
    IF t.kind # "dir" THEN [exc |-> "FileNotFoundError", tree |-> t]
    ELSE IF t.kids["CACHEDIR.TAG"].kind = "dir" THEN [exc |-> "IsADirectoryError", tree |-> t]
    ELSE [exc |-> "", tree |-> [t EXCEPT !.kids["CACHEDIR.TAG"] = PlainFile(_CACHEDIR_TAG_CONTENT)]]

\* ensure_cachedir_tag(path): [exc, tree]. Under a path that is no directory
\* the tag does not exist and cannot be written.
ensure_cachedir_tag(t) ==
    IF t.kind = "dir" /\ t.kids["CACHEDIR.TAG"].kind # "absent"
    THEN [exc |-> "", tree |-> t]
    ELSE IF t.kind # "dir"
    THEN [exc |-> IF t.kind = "file" THEN "NotADirectoryError" ELSE "FileNotFoundError",
          tree |-> t]
    ELSE [exc |-> "", tree |-> [t EXCEPT !.kids["CACHEDIR.TAG"] = PlainFile(_CACHEDIR_TAG_CONTENT)]]

Running(except_filename) ==
    [op |-> "empty", kind |-> "running", exc |-> "", before |-> tree,
     except |-> except_filename]

Returned == [done EXCEPT !.kind = "return"]

\* ensure_empty_dir(path, except_filename), lines 19-21 and 28-32: a path
\* that is no directory is made one at once, a directory is listed.
Enter(except_filename) ==
    /\ job.pc = "idle"
    /\ IF tree.kind = "dir"
       THEN /\ job' = [pc |-> "loop", except |-> except_filename,
                       listing |-> Listing(tree), at |-> "", isdir |-> FALSE]
            /\ tree' = tree
            /\ done' = Running(except_filename)
       ELSE /\ job' = NoJob
            /\ tree' = IF tree.kind = "file" THEN ReplaceFile(tree) ELSE MakeDirs(tree)
            /\ done' = [Running(except_filename) EXCEPT !.kind = "return"]
    /\ UNCHANGED <<fs, py, platform, data, last, prev, ref, content>>
    /\ UNCHANGED <<decl, args, cache, got, asked>>

\* lines 21-24: the next listed name, the test for the exception and
\* sub_path.is_dir()
Examine ==
    /\ job.pc = "loop"
    /\ \E name \in job.listing :
          IF IsException(name, job.except)
          THEN job' = [job EXCEPT !.listing = @ \ {name}]
          ELSE job' = [job EXCEPT !.pc = "remove", !.at = name,
                                  !.isdir = (tree.kids[name].kind = "dir")]
    /\ UNCHANGED <<fs, py, platform, data, last, prev, ref, content>>
    /\ UNCHANGED <<decl, args, cache, got, tree, done, asked>>

\* lines 25 and 27: the removal of the child examined
Remove ==
    /\ job.pc = "remove"
    /\ IF job.isdir
       THEN /\ tree' = rmtree(tree, job.at)
            /\ job' = [job EXCEPT !.pc = "loop", !.listing = @ \ {job.at}]
            /\ done' = done
       ELSE LET u == unlink(tree, job.at) IN
            /\ tree' = u.tree
            /\ IF u.exc = ""
               THEN /\ job' = [job EXCEPT !.pc = "loop", !.listing = @ \ {job.at}]
                    /\ done' = done
               ELSE /\ job' = NoJob
                    /\ done' = [done EXCEPT !.kind = "raise", !.exc = u.exc]
    /\ UNCHANGED <<fs, py, platform, data, last, prev, ref, content>>
    /\ UNCHANGED <<decl, args, cache, got, asked>>

\* the loop of line 21 is through
Leave ==
    /\ job.pc = "loop"
    /\ job.listing = {}
    /\ job' = NoJob
    /\ done' = Returned
    /\ UNCHANGED <<fs, py, platform, data, last, prev, ref, content>>
    /\ UNCHANGED <<decl, args, cache, got, tree, asked>>

\* one step of ensure_empty_dir(path, except_filename)
EnsureEmptyDir(except_filename) ==
    \/ Enter(except_filename)
    \/ (job.except = except_filename /\ (Examine \/ Remove \/ Leave))

\* ensure_cachedir_tag(path)
EnsureCachedirTag ==
    LET r == ensure_cachedir_tag(tree) IN
    /\ job.pc = "idle"
    /\ tree' = r.tree
    /\ done' = [op |-> "tag", kind |-> IF r.exc = "" THEN "return" ELSE "raise",
                exc |-> r.exc, before |-> tree, except |-> None]
    /\ UNCHANGED <<fs, py, platform, data, last, prev, ref, content>>
    /\ UNCHANGED <<decl, args, cache, got, job, asked>>

\* what a child of the given name can be
Children(name) ==
    CASE name = "CACHEDIR.TAG" ->
            {PlainFile(_CACHEDIR_TAG_CONTENT), PlainFile(<<"mine">>)}
      [] name = "a" -> {PlainFile(<<"x">>)}
      [] OTHER -> {SubDir(FALSE), SubDir(TRUE)}

\* between two calls something is put into the directory
Put(name) ==
    /\ job.pc = "idle"
    /\ tree.kind = "dir"
    /\ tree.kids[name].kind = "absent"
    /\ \E c \in Children(name) : tree' = [tree EXCEPT !.kids[name] = c]
    /\ done' = NoDone
    /\ UNCHANGED <<fs, py, platform, data, last, prev, ref, content>>
    /\ UNCHANGED <<decl, args, cache, got, job, asked>>

\* another actor removes a child, at any moment
RivalRemove(name) ==
    /\ tree.kind = "dir"
    /\ tree.kids[name].kind # "absent"
    /\ tree' = [tree EXCEPT !.kids[name] = Gone]
    /\ UNCHANGED <<fs, py, platform, data, last, prev, ref, content>>
    /\ UNCHANGED <<decl, args, cache, got, job, done, asked>>

Trees ==
    { [kind |-> "absent", parent |-> p, kids |-> NoKids] : p \in BOOLEAN }
    \cup { [kind |-> "file", parent |-> TRUE, kids |-> NoKids] }
    \cup { [kind |-> "dir", parent |-> TRUE, kids |-> k] :
             k \in { k \in [ChildNames -> UNION { Children(n) \cup {Gone} : n \in ChildNames }] :
                        \A n \in ChildNames : k[n] \in Children(n) \cup {Gone} } }

Exceptions == {None, Some("CACHEDIR.TAG"), Some("a"), Some("sub")}

InitPath ==
    /\ fs = Missing
    /\ py = <<3, 12, 0>>
    /\ platform = "linux"
    /\ data = NewReader
    /\ last = NoCall
    /\ prev = NoPrev
    /\ ref = NoRef
    /\ content = NoContent
    /\ decl = <<>>
    /\ args = NoArgs
    /\ cache = None
    /\ got = NoGot
    /\ tree \in Trees
    /\ job = NoJob
    /\ done = NoDone
    /\ asked = NoAsked

NextPath ==
    \/ \E e \in Exceptions : EnsureEmptyDir(e)
    \/ EnsureCachedirTag
    \/ \E n \in ChildNames : Put(n)

SpecPath == InitPath /\ [][NextPath]_vars

NextRace ==
    \/ \E e \in Exceptions : EnsureEmptyDir(e)
    \/ \E n \in ChildNames : RivalRemove(n)

SpecRace == InitPath /\ [][NextRace]_vars

(***************************************************************************)
(* Claims about the path utilities                                         *)
(***************************************************************************)
Emptied == done.op = "empty" /\ done.kind = "return"

Tagged == done.op = "tag" /\ done.kind = "return"

WasDir == done.before.kind = "dir"

\* C13 as stated: after ensure_empty_dir returns, the path is a directory;
\* of a directory every child is removed but the one named except_filename,
\* which is left as it was; a plain file or a missing path gives an empty
\* directory.
C13_Original ==
    Emptied =>
        /\ tree.kind = "dir" /\ tree.parent
        /\ \A n \in ChildNames :
              tree.kids[n] = IF WasDir /\ done.except = Some(n)
                             THEN done.before.kids[n] ELSE Gone

\* C13: after ensure_empty_dir returns, the path is a directory, with its
\* parents; a plain file or a missing path gives an empty directory; of a
\* directory the child named except_filename and every subdirectory whose
\* removal fails are left as they were, and every other child is removed.
C13_EmptiesDirectory ==
    Emptied =>
        /\ tree.kind = "dir" /\ tree.parent
        /\ \A n \in ChildNames :
              tree.kids[n] =
                  IF WasDir /\ (done.except = Some(n) \/ done.before.kids[n] = SubDir(TRUE))
                  THEN done.before.kids[n] ELSE Gone

C13_Witness ==
    /\ Emptied /\ WasDir /\ done.except = Some("a")
    /\ done.before.kids = [n \in ChildNames |->
                              CASE n = "a" -> PlainFile(<<"x">>)
                                [] n = "sub" -> SubDir(FALSE)
                                [] OTHER -> PlainFile(<<"mine">>)]
    /\ tree.kids = [n \in ChildNames |-> IF n = "a" THEN PlainFile(<<"x">>) ELSE Gone]

\* C14: ensure_cachedir_tag, when it returns, has created an absent tag with
\* the fixed content, whose first line is the signature, has left an
\* existing tag and everything else as it was, and a second call changes
\* nothing.
C14_TagWrittenOnce ==
    Tagged =>
        /\ tree.kind = "dir"
        /\ \A n \in ChildNames \ {"CACHEDIR.TAG"} : tree.kids[n] = done.before.kids[n]
        /\ IF done.before.kids["CACHEDIR.TAG"] = Gone
           THEN /\ tree.kids["CACHEDIR.TAG"] = PlainFile(_CACHEDIR_TAG_CONTENT)
                /\ Head(tree.kids["CACHEDIR.TAG"].text)
                       = "Signature: 8a477f597d28d172789f06886806bc55"
           ELSE tree = done.before
        /\ ensure_cachedir_tag(tree) = [exc |-> "", tree |-> tree]

C14_Witness ==
    /\ Tagged
    /\ done.before.kids["CACHEDIR.TAG"] = PlainFile(<<"mine">>)
    /\ tree.kids["CACHEDIR.TAG"] = PlainFile(<<"mine">>)
    /\ tree.kids["a"] = PlainFile(<<"x">>)

\* C15: ensure_empty_dir on a directory does not raise when another actor
\* removes a child, plain file or subdirectory, after the listing and before
\* the removal.
C15_ToleratesMissingEntries == done.op = "empty" => done.kind # "raise"

HasTag(t) == t.kind = "dir" /\ t.kids["CACHEDIR.TAG"].kind = "file"

\* C18: once ensure_cachedir_tag has returned, the path is a directory with
\* a CACHEDIR.TAG, and no step of ensure_cachedir_tag or of
\* ensure_empty_dir(p, "CACHEDIR.TAG") removes the tag or changes its
\* content; ensure_empty_dir(p) without the exception leaves no tag, and
\* the next ensure_cachedir_tag writes it with the fixed content.
C18_TagSurvivesClearing ==
    /\ [](Tagged => HasTag(tree))
    /\ [][(HasTag(tree) /\ (EnsureCachedirTag \/ EnsureEmptyDir(Some("CACHEDIR.TAG"))))
             => (HasTag(tree') /\ tree'.kids["CACHEDIR.TAG"] = tree.kids["CACHEDIR.TAG"])]_vars
    /\ []((Emptied /\ done.except = None) => tree.kids["CACHEDIR.TAG"] = Gone)
    /\ [][(EnsureCachedirTag /\ tree.kind = "dir" /\ tree.kids["CACHEDIR.TAG"] = Gone)
             => tree'.kids["CACHEDIR.TAG"] = PlainFile(_CACHEDIR_TAG_CONTENT)]_vars

C18_Witness ==
    /\ Emptied /\ WasDir /\ done.except = Some("CACHEDIR.TAG")
    /\ done.before.kids["CACHEDIR.TAG"] = PlainFile(_CACHEDIR_TAG_CONTENT)
    /\ done.before.kids["a"] = PlainFile(<<"x">>)
    /\ done.before.kids["sub"] = SubDir(FALSE)
    /\ tree.kids = [n \in ChildNames |->
                       IF n = "CACHEDIR.TAG" THEN PlainFile(_CACHEDIR_TAG_CONTENT) ELSE Gone]

(***************************************************************************)
(* get_requirements with its selection arguments kept: the same call as    *)
(* GetRequirements, with `asked` holding the extras and the groups given.  *)
(***************************************************************************)
\* pylock.get_requirements(extras=e, dependency_groups=g, python_version=pv)
GetRequirementsWith(e, g, pv) ==
    LET r == get_requirements(data, fs, e, g, pv, py, platform) IN
    /\ data' = r.data
    /\ last' = Outcome("get_requirements",
                       IF pv = None THEN py ELSE pv[1], r, <<>>, "", r.reqs)
    /\ prev' = Summary(last)
    /\ asked' = [extras |-> e, groups |-> g]
    /\ UNCHANGED <<fs, py, platform, ref, content>>
    /\ UNCHANGED <<decl, args, cache, got, tree, job, done>>

\* lock files whose entries carry markers, and none
SelFiles ==
    { Missing,
      FileOf(Pep751Doc),
      FileOf(ReqDoc(<<>>, << Pkg("colorama", "0.4.6", WinOnly, <<>>),
                             Pkg("typer", "0.9.0", InExtras, <<>>),
                             Pkg("vcs-pkg", "", <<>>, <<>>) >>)),
      FileOf(LoadDoc(None, <<>>, Some("test"))) }

InitSel ==
    /\ fs \in SelFiles
    /\ py \in SysVersions
    /\ platform \in Platforms
    /\ data = NewReader
    /\ last = NoCall
    /\ prev = NoPrev
    /\ ref = NoRef
    /\ content = NoContent
    /\ RestIdle

NextSel ==
    \/ \E e \in ExtrasArgs, g \in GroupsArgs, pv \in PvArgs : GetRequirementsWith(e, g, pv)
    \/ \E f \in SelFiles : WriteFile(f)
    \/ RemoveFile

SpecSel == InitSel /\ [][NextSel]_vars

\* C16: a call of get_requirements with any extras and dependency_groups
\* ends as the call with neither does, on the same reader, file, interpreter
\* and python_version: the same return or exception, the same list.
C16_SelectionIgnored ==
    [][\A e \in ExtrasArgs, g \in GroupsArgs, pv \in PvArgs :
          GetRequirementsWith(e, g, pv) =>
              LET r == get_requirements(data, fs, None, None, pv, py, platform) IN
              /\ data' = r.data
              /\ last' = Outcome("get_requirements",
                                 IF pv = None THEN py ELSE pv[1], r, <<>>, "", r.reqs)]_vars

\* extras and a group were asked for, and the entry whose marker names the
\* extras came out as it does without them
C16_Witness ==
    /\ asked = [extras |-> Some({"dev"}), groups |-> Some({"docs"})]
    /\ last.op = "get_requirements" /\ last.kind = "return"
    /\ data # None /\ Len(Doc.packages) = 3
    /\ Doc.packages[2].marker = InExtras
    /\ Strings(last.reqs) = << <<"typer", "==", "0.9.0">>, <<"vcs-pkg">> >>

====
